---- MODULE Spec2Model ----
(***************************************************************************)
(* A model of shcol's column width calculator (shcol/core/columncalc.py)  *)
(* and of its line formatter (shcol/core/formatters.py).                   *)
(*                                                                         *)
(* A string is a sequence of characters and a character is a natural       *)
(* number.  The j-th character of the k-th item of a call is 10 * k + j,   *)
(* so that every character of the input can be told apart in the output.  *)
(***************************************************************************)
EXTENDS Integers, Sequences, FiniteSets, TLC

\* ---------------------------------------------------------------- bounds
\* a call formats at most MaxItems items of at most MaxItemWidth characters
MaxItems == 3
MaxItemWidth == 2
\* line_width is drawn from 1..MaxLineWidth, spacing from 0..MaxSpacing
MaxLineWidth == 3
MaxSpacing == 1
\* num_columns is None or in 1..MaxNumColumns
MaxNumColumns == 2
\* min_shrink_width is None or in 1..MaxShrinkWidth
MaxShrinkWidth == 1
\* a mapping has at most MaxEntries entries
MaxEntries == 2

\* ------------------------------------------------------------ characters
\* ' ', the character the templates pad and separate with
Blank == 0
\* config.LINESEP
LINESEP == 1
\* a single character given as extra_sep
ExtraSepChar == 2
\* Python's None for num_columns, min_shrink_width and extra_sep
None == -1

ItemChar(k, j) == 10 * k + j

\* the k-th item of a call, given its width
MakeItem(k, width) == [j \in 1..width |-> ItemChar(k, j)]

\* --------------------------------------------------- Python's sequences
Minimum(a, b) == IF a <= b THEN a ELSE b

\* s[a:b] for 0 <= a
Slice(s, a, b) == SubSeq(s, a + 1, Minimum(b, Len(s)))

\* s[start::step] for 0 <= start, 1 <= step
StepSlice(s, start, step) ==
    [n \in 1..((Len(s) - start + step - 1) \div step) |-> s[start + (n - 1) * step + 1]]

\* max(s) and min(s) of a non-empty sequence of numbers
SeqMax(s) == CHOOSE m \in {s[i] : i \in 1..Len(s)} : \A i \in 1..Len(s) : s[i] <= m

SeqMin(s) == CHOOSE m \in {s[i] : i \in 1..Len(s)} : \A i \in 1..Len(s) : m <= s[i]

RECURSIVE Sum(_)
Sum(s) == IF s = <<>> THEN 0 ELSE Head(s) + Sum(Tail(s))

Reversed(s) == [i \in 1..Len(s) |-> s[Len(s) + 1 - i]]

Repeat(c, n) == [i \in 1..n |-> c]

\* sep.join(parts)
RECURSIVE Join(_, _)
Join(sep, parts) ==
    IF parts = <<>> THEN <<>>
    ELSE IF Len(parts) = 1 THEN parts[1]
    ELSE parts[1] \o sep \o Join(sep, Tail(parts))

\* ''.join(parts)
Concat(parts) == Join(<<>>, parts)

\* s.rstrip(c) for a single character c
RECURSIVE RStrip(_, _)
RStrip(s, c) ==
    IF s # <<>> /\ s[Len(s)] = c THEN RStrip(SubSeq(s, 1, Len(s) - 1), c) ELSE s

\* ------------------------------------------------------------ helpers.num
\* The values that can be passed as a number: None, an int, a float (given
\* by the number of its halves: the float halves / 2) and a str (given by its
\* characters).
NoneValue == [type |-> "NoneType", number |-> 0, chars |-> <<>>]

IntValue(n) == [type |-> "int", number |-> n, chars |-> <<>>]

FloatValue(halves) == [type |-> "float", number |-> halves, chars |-> <<>>]

StrValue(chars) == [type |-> "str", number |-> 0, chars |-> chars]

Digits == <<"0", "1", "2", "3", "4", "5", "6", "7", "8", "9">>

IsDigit(c) == \E d \in 1..Len(Digits) : Digits[d] = c

DigitValue(c) == (CHOOSE d \in 1..Len(Digits) : Digits[d] = c) - 1

\* the number a non-empty sequence of digits stands for
RECURSIVE DigitsValue(_)
DigitsValue(chars) ==
    IF chars = <<>> THEN 0
    ELSE Len(Digits) * DigitsValue(SubSeq(chars, 1, Len(chars) - 1))
             + DigitValue(chars[Len(chars)])

Converted(number) == [err |-> "none", number |-> number]

NotConverted(name) == [err |-> name, number |-> 0]

\* int(value): an int is returned as it is, a float is truncated towards
\* zero, a str must be an optional sign followed by digits, None is no number
int(value) ==
    LET parsed(sign, digits) ==
            IF digits # <<>> /\ \A i \in 1..Len(digits) : IsDigit(digits[i])
            THEN Converted(sign * DigitsValue(digits))
            ELSE NotConverted("ValueError")
    IN  CASE value.type = "NoneType" -> NotConverted("TypeError")
          [] value.type = "int" -> Converted(value.number)
          [] value.type = "float" ->
                 Converted(IF value.number >= 0 THEN value.number \div 2
                           ELSE -((-value.number) \div 2))
          [] value.type = "str" ->
                 IF value.chars # <<>> /\ value.chars[1] = "-"
                 THEN parsed(-1, Tail(value.chars))
                 ELSE parsed(1, value.chars)

\* value == 0
equals_zero(value) ==
    value.type \in {"int", "float"} /\ value.number = 0

num(value, allow_none, allow_zero) ==
    LET checked(number) ==
            IF number.err = "TypeError" THEN number
            ELSE IF number.err = "ValueError" \/ number.number < 0
            THEN NotConverted("ValueError")
            ELSE IF equals_zero(value) /\ ~allow_zero
            THEN NotConverted("ValueError")
            ELSE number
    IN  IF allow_none /\ value.type = "NoneType" THEN Converted(None)
        ELSE checked(int(value))

\* ------------------------------------------------- ColumnWidthCalculator
\* The calculator's attributes are passed as a record
\* [spacing, line_width, num_columns, allow_exceeding, min_shrink_width].
\* A result is a record whose err field names the exception that was raised.
ColumnConfig(column_widths, num_lines) ==
    [err |-> "none", column_widths |-> column_widths, num_lines |-> num_lines]

Raise(name) == [err |-> name, column_widths |-> <<>>, num_lines |-> 0]

\* ColumnWidthCalculator.__init__: the calculator, or the first exception
\* that one of the conversions of its arguments raises
ColumnWidthCalculator(spacing, line_width, num_columns, allow_exceeding, min_shrink_width) ==
    LET made(s, w, c, m) ==
            IF s.err # "none" THEN [err |-> s.err]
            ELSE IF w.err # "none" THEN [err |-> w.err]
            ELSE IF c.err # "none" THEN [err |-> c.err]
            ELSE IF m.err # "none" THEN [err |-> m.err]
            ELSE [err |-> "none",
                  calculator |-> [spacing |-> s.number,
                                  line_width |-> w.number,
                                  num_columns |-> c.number,
                                  allow_exceeding |-> allow_exceeding,
                                  min_shrink_width |-> m.number]]
    IN  made(num(spacing, FALSE, TRUE), num(line_width, FALSE, FALSE),
             num(num_columns, TRUE, FALSE), num(min_shrink_width, TRUE, FALSE))

get_used_line_width(calc, column_widths) ==
    Sum(column_widths) + (Len(column_widths) - 1) * calc.spacing

\* fits_in_line with a strict comparison
fits_in_line_strict(calc, column_widths) ==
    get_used_line_width(calc, column_widths) < calc.line_width

\* fits_in_line with the comparison off by one
fits_in_line_loose(calc, column_widths) ==
    get_used_line_width(calc, column_widths) <= calc.line_width + 1

fits_in_line(calc, column_widths) ==
    get_used_line_width(calc, column_widths) <= calc.line_width

\* get_unchecked_column_config giving every item a line of its own when the
\* items cannot be spread evenly
get_unchecked_column_config_uneven(item_widths, max_columns) ==
    LET num_items == Len(item_widths)
        num_lines == IF num_items % max_columns # 0 THEN num_items
                     ELSE num_items \div max_columns
        starts    == (num_items + num_lines - 1) \div num_lines
    IN  ColumnConfig(
            [c \in 1..starts |->
                SeqMax(Slice(item_widths, (c - 1) * num_lines,
                             (c - 1) * num_lines + num_lines))],
            num_lines)

\* get_unchecked_column_config adding a line whether or not items remain
get_unchecked_column_config_extra_line(item_widths, max_columns) ==
    LET num_items == Len(item_widths)
        num_lines == (num_items \div max_columns) + 1
        starts    == (num_items + num_lines - 1) \div num_lines
    IN  ColumnConfig(
            [c \in 1..starts |->
                SeqMax(Slice(item_widths, (c - 1) * num_lines,
                             (c - 1) * num_lines + num_lines))],
            num_lines)

\* get_unchecked_column_config with slices that overlap by one item
get_unchecked_column_config_overlap(item_widths, max_columns) ==
    LET num_items == Len(item_widths)
        remaining == num_items % max_columns
        num_lines == (num_items \div max_columns) + (IF remaining # 0 THEN 1 ELSE 0)
        starts    == (num_items + num_lines - 1) \div num_lines
    IN  ColumnConfig(
            [c \in 1..starts |->
                SeqMax(Slice(item_widths, (c - 1) * num_lines,
                             (c - 1) * num_lines + num_lines + 1))],
            num_lines)

get_unchecked_column_config(item_widths, max_columns) ==
    LET num_items == Len(item_widths)
        remaining == num_items % max_columns
        num_lines == (num_items \div max_columns) + (IF remaining # 0 THEN 1 ELSE 0)
        starts    == (num_items + num_lines - 1) \div num_lines
    IN  ColumnConfig(
            [c \in 1..starts |->
                SeqMax(Slice(item_widths, (c - 1) * num_lines,
                             (c - 1) * num_lines + num_lines))],
            num_lines)

calculate_max_columns(calc, item_widths) ==
    LET num_items == Len(item_widths)
        smallest_item == SeqMin(item_widths)
        widest_item == SeqMax(item_widths)
        remaining_width == calc.line_width - widest_item
        min_width == calc.spacing + smallest_item
    IN  IF num_items <= 1 THEN [err |-> "none", value |-> num_items]
        ELSE IF widest_item >= calc.line_width THEN [err |-> "none", value |-> 1]
        ELSE IF min_width = 0 THEN [err |-> "ZeroDivisionError", value |-> 0]
        ELSE [err |-> "none",
              value |-> Minimum(num_items, 1 + remaining_width \div min_width)]

\* iter_column_configs going on one below the previous max_columns
RECURSIVE iter_column_configs_by_one(_, _)
iter_column_configs_by_one(item_widths, max_columns) ==
    LET yield(cfg) ==
            <<cfg>> \o iter_column_configs_by_one(item_widths, max_columns - 1)
    IN  IF max_columns > 0
        THEN yield(get_unchecked_column_config(item_widths, max_columns))
        ELSE <<>>

\* iter_column_configs going on two columns below the previous configuration
RECURSIVE iter_column_configs_skipping(_, _)
iter_column_configs_skipping(item_widths, max_columns) ==
    LET yield(cfg) ==
            <<cfg>> \o iter_column_configs_skipping(item_widths,
                                                    Len(cfg.column_widths) - 2)
    IN  IF max_columns > 0
        THEN yield(get_unchecked_column_config(item_widths, max_columns))
        ELSE <<>>

\* the configurations the generator yields when it is run to its end
RECURSIVE iter_column_configs(_, _)
iter_column_configs(item_widths, max_columns) ==
    LET yield(cfg) ==
            <<cfg>> \o iter_column_configs(item_widths, Len(cfg.column_widths) - 1)
    IN  IF max_columns > 0
        THEN yield(get_unchecked_column_config(item_widths, max_columns))
        ELSE <<>>

find_fitting_config(calc, item_widths) ==
    LET first_of(cfgs, fitting) ==
            IF fitting = {} THEN Raise("LineTooSmallError")
            ELSE cfgs[CHOOSE n \in fitting : \A m \in fitting : n <= m]
        search(cfgs) ==
            first_of(cfgs, {n \in 1..Len(cfgs) :
                               fits_in_line(calc, cfgs[n].column_widths)})
        loop(max_columns) ==
            IF max_columns.err # "none" THEN Raise(max_columns.err)
            ELSE search(iter_column_configs(item_widths, max_columns.value))
    IN  loop(calculate_max_columns(calc, item_widths))

\* The search of the single-file version (shcol.py): the loop of its
\* calculate_columns over range(max_columns, 0, -1), which computes the
\* widths of every number of columns from scratch and returns the first
\* that fit, or one column as wide as the line when none does.
RECURSIVE plain_search(_, _, _)
plain_search(calc, item_widths, num_columns) ==
    LET num_items == Len(item_widths)
        tried(num_lines) ==
            [c \in 1..((num_items + num_lines - 1) \div num_lines) |->
                SeqMax(Slice(item_widths, (c - 1) * num_lines,
                             (c - 1) * num_lines + num_lines))]
        first_fit(num_lines, column_widths) ==
            IF fits_in_line(calc, column_widths)
            THEN ColumnConfig(column_widths, num_lines)
            ELSE plain_search(calc, item_widths, num_columns - 1)
        step(num_lines) == first_fit(num_lines, tried(num_lines))
    IN  IF num_columns <= 0 THEN ColumnConfig(<<calc.line_width>>, num_items)
        ELSE step((num_items \div num_columns)
                      + (IF num_items % num_columns # 0 THEN 1 ELSE 0))

\* the loop of shrink_column_widths reducing every column it looks at to
\* min_shrink_width
RECURSIVE shrink_loop_to_minimum(_, _, _, _, _)
shrink_loop_to_minimum(calc, column_widths, i, offset, processed) ==
    IF i = 0 \/ offset <= 0 THEN [offset |-> offset, processed |-> processed]
    ELSE LET width == column_widths[i]
         IN  IF width <= calc.min_shrink_width
             THEN shrink_loop_to_minimum(calc, column_widths, i - 1, offset,
                                         Append(processed, width))
             ELSE shrink_loop_to_minimum(calc, column_widths, i - 1,
                                         offset - (width - calc.min_shrink_width),
                                         Append(processed, calc.min_shrink_width))

\* the loop of shrink_column_widths looking at a column only after the
\* column to its left was reduced or kept
RECURSIVE shrink_loop_shared(_, _, _, _, _)
shrink_loop_shared(calc, column_widths, i, offset, processed) ==
    IF i = 0 \/ offset <= 0 THEN [offset |-> offset, processed |-> processed]
    ELSE LET width == column_widths[i]
             share == IF i > 1 THEN 1 ELSE offset
             new_width == IF width - share < calc.min_shrink_width
                          THEN calc.min_shrink_width ELSE width - share
         IN  IF width <= calc.min_shrink_width
             THEN shrink_loop_shared(calc, column_widths, i - 1, offset,
                                     Append(processed, width))
             ELSE shrink_loop_shared(calc, column_widths, i - 1,
                                     offset - (width - new_width),
                                     Append(processed, new_width))

\* the loop of shrink_column_widths over reversed(column_widths), i being
\* the (1-based) index of the column the loop looks at next
RECURSIVE shrink_loop(_, _, _, _, _)
shrink_loop(calc, column_widths, i, offset, processed) ==
    IF i = 0 \/ offset <= 0 THEN [offset |-> offset, processed |-> processed]
    ELSE LET width == column_widths[i]
             new_width == IF width - offset < calc.min_shrink_width
                          THEN calc.min_shrink_width ELSE width - offset
         IN  IF width <= calc.min_shrink_width
             THEN shrink_loop(calc, column_widths, i - 1, offset,
                              Append(processed, width))
             ELSE shrink_loop(calc, column_widths, i - 1,
                              offset - (width - new_width),
                              Append(processed, new_width))

\* shrink_column_widths without the check for a remaining offset
shrink_column_widths_unchecked(calc, column_widths) ==
    LET merge(done) ==
            IF done.processed = <<>> THEN ColumnConfig(column_widths, 0)
            ELSE ColumnConfig(
                    SubSeq(column_widths, 1, Len(column_widths) - Len(done.processed))
                        \o Reversed(done.processed), 0)
    IN  merge(shrink_loop(calc, column_widths, Len(column_widths),
                          get_used_line_width(calc, column_widths) - calc.line_width,
                          <<>>))

shrink_column_widths(calc, column_widths) ==
    LET merge(done) ==
            IF done.offset > 0 THEN Raise("LineTooSmallError")
            ELSE IF done.processed = <<>> THEN ColumnConfig(column_widths, 0)
            ELSE ColumnConfig(
                    SubSeq(column_widths, 1, Len(column_widths) - Len(done.processed))
                        \o Reversed(done.processed), 0)
    IN  merge(shrink_loop(calc, column_widths, Len(column_widths),
                          get_used_line_width(calc, column_widths) - calc.line_width,
                          <<>>))

get_column_config(calc, item_widths) ==
    LET shrinked(cfg, column_widths) ==
            IF column_widths.err # "none" THEN column_widths
            ELSE ColumnConfig(column_widths.column_widths, cfg.num_lines)
        checked(cfg) ==
            IF ~fits_in_line(calc, cfg.column_widths)
            THEN IF calc.min_shrink_width = None THEN Raise("LineTooSmallError")
                 ELSE shrinked(cfg, shrink_column_widths(calc, cfg.column_widths))
            ELSE cfg
    IN  IF calc.num_columns = None THEN find_fitting_config(calc, item_widths)
        ELSE checked(get_unchecked_column_config(item_widths, calc.num_columns))

\* calculate_columns exceeding the line width whatever num_columns is
calculate_columns_any_columns(calc, item_widths) ==
    LET try(cfg) ==
            IF cfg.err = "LineTooSmallError" /\ calc.allow_exceeding
            THEN ColumnConfig(<<calc.line_width>>, Len(item_widths))
            ELSE cfg
    IN  IF item_widths = <<>> THEN ColumnConfig(<<>>, 0)
        ELSE try(get_column_config(calc, item_widths))

calculate_columns(calc, item_widths) ==
    LET try(cfg) ==
            IF cfg.err = "LineTooSmallError"
            THEN IF calc.allow_exceeding /\ calc.num_columns \in {None, 1}
                 THEN ColumnConfig(<<calc.line_width>>, Len(item_widths))
                 ELSE cfg
            ELSE cfg
    IN  IF item_widths = <<>> THEN ColumnConfig(<<>>, 0)
        ELSE try(get_column_config(calc, item_widths))

\* ColumnWidthCalculator.get_line_properties: a LineProperties with an err field
calc_get_line_properties(calc, items) ==
    LET LineProperties(cfg) ==
            [err |-> cfg.err, column_widths |-> cfg.column_widths,
             spacing |-> calc.spacing, num_lines |-> cfg.num_lines]
    IN  LineProperties(
            calculate_columns(calc, [k \in 1..Len(items) |-> Len(items[k])]))

\* ----------------------------------------------------- IterableFormatter
\* The formatter's attributes are passed as a record [extra_sep, wrapsep].

\* IterableFormatter.__init__: wrapsep for a given wrap_lines
init_wrapsep(wrap_lines) == IF wrap_lines THEN <<LINESEP>> ELSE <<>>

\* IterableFormatter.get_line_properties; spacing is the calculator's spacing
\* when the method is left
get_line_properties(fmt, calc, items) ==
    LET increased_spacing == fmt.extra_sep # None /\ calc.spacing % 2 = 0
        used == IF increased_spacing
                THEN [calc EXCEPT !.spacing = calc.spacing + 1] ELSE calc
        left(props) ==
            [props |-> props,
             spacing |-> IF props.err = "none" THEN calc.spacing ELSE used.spacing]
    IN  left(calc_get_line_properties(used, items))

\* make_line_chunks striding by the number of columns
make_line_chunks_by_columns(items, props) ==
    [r \in 1..props.num_lines |->
        StepSlice(items, r - 1, Len(props.column_widths))]

make_line_chunks(items, props) ==
    [r \in 1..props.num_lines |-> StepSlice(items, r - 1, props.num_lines)]

\* '%-{width}.{width}s' % s
get_padded_template(width, s) ==
    Slice(s, 0, width) \o Repeat(Blank, width - Minimum(width, Len(s)))

\* '%.{width}s' % s
get_unpadded_template(width, s) == Slice(s, 0, width)

\* make_line_template with spacing blanks on each side of the extra separator
make_line_template_wide(fmt, props, num_columns) ==
    [widths |-> IF num_columns = None THEN props.column_widths
                ELSE Slice(props.column_widths, 0, num_columns),
     sep |-> IF fmt.extra_sep # None
             THEN Repeat(Blank, props.spacing) \o <<fmt.extra_sep>>
                      \o Repeat(Blank, props.spacing)
             ELSE Repeat(Blank, props.spacing)]

\* A template is the record of the widths its specifiers were made for and
\* of its separator.
make_line_template(fmt, props, num_columns) ==
    LET widths == IF num_columns = None THEN props.column_widths
                  ELSE Slice(props.column_widths, 0, num_columns)
        spacer == Repeat(Blank, props.spacing \div 2)
    IN  [widths |-> widths,
         sep |-> IF fmt.extra_sep # None
                 THEN spacer \o <<fmt.extra_sep>> \o spacer
                 ELSE Repeat(Blank, props.spacing)]

\* template % chunk with a padded specifier for the last string too
apply_template_padding_all(template, chunk) ==
    Join(template.sep,
         [i \in 1..Len(template.widths) |->
             get_padded_template(template.widths[i], chunk[i])])

\* template % chunk, for a chunk with as many strings as the template has
\* specifiers
apply_template(template, chunk) ==
    LET n == Len(template.widths)
    IN  Join(template.sep,
             [i \in 1..n |-> IF i < n
                             THEN get_padded_template(template.widths[i], chunk[i])
                             ELSE get_unpadded_template(template.widths[i], chunk[i])])

\* format_chunk counting the wraps of an item as len(item) // width - 1
format_chunk_floor(fmt, props, template, chunk) ==
    LET n == Minimum(Len(chunk), Len(props.column_widths))
        wrapped_chunk(i) ==
            [c \in 1..n |-> Slice(chunk[c], props.column_widths[c] * i,
                                  props.column_widths[c] * (i + 1))]
        yield(num_wraps, used) ==
            [err |-> "none",
             line |-> Join(fmt.wrapsep,
                           [i \in 1..(num_wraps + 1) |->
                               apply_template(used, wrapped_chunk(i - 1))]),
             template |-> used]
        wrapped(num_wraps) ==
            yield(num_wraps,
                  IF num_wraps >= 0 /\ Len(template.widths) # n
                  THEN make_line_template(fmt, props, n) ELSE template)
        most(wraps) == CHOOSE m \in wraps : \A w \in wraps : w <= m
    IN  IF \E i \in 1..n : props.column_widths[i] = 0
        THEN [err |-> "ZeroDivisionError", line |-> <<>>, template |-> template]
        ELSE IF n = 0
        THEN [err |-> "ValueError", line |-> <<>>, template |-> template]
        ELSE wrapped(most(
                {(Len(chunk[i]) \div props.column_widths[i]) - 1 : i \in 1..n}))

\* One pass of the loop over line_chunks in iter_formatted_lines: the line
\* that is yielded for chunk and the template that is cached afterwards.
format_chunk(fmt, props, template, chunk) ==
    LET n == Minimum(Len(chunk), Len(props.column_widths))
        wrapped_chunk(i) ==
            [c \in 1..n |-> Slice(chunk[c], props.column_widths[c] * i,
                                  props.column_widths[c] * (i + 1))]
        yield(num_wraps, used) ==
            [err |-> "none",
             line |-> Join(fmt.wrapsep,
                           [i \in 1..(num_wraps + 1) |->
                               apply_template(used, wrapped_chunk(i - 1))]),
             template |-> used]
        wrapped(num_wraps) ==
            yield(num_wraps,
                  IF num_wraps >= 0 /\ Len(template.widths) # n
                  THEN make_line_template(fmt, props, n) ELSE template)
        most(wraps) == CHOOSE m \in wraps : \A w \in wraps : w <= m
    IN  IF \E i \in 1..n : props.column_widths[i] = 0
        THEN [err |-> "ZeroDivisionError", line |-> <<>>, template |-> template]
        ELSE IF n = 0
        THEN [err |-> "ValueError", line |-> <<>>, template |-> template]
        ELSE wrapped(most(
                {(Len(chunk[i]) \div props.column_widths[i])
                    - (IF Len(chunk[i]) % props.column_widths[i] = 0 THEN 1 ELSE 0)
                 : i \in 1..n}))

\* add_line_breaks appending the line separator to every line
add_line_breaks_always(fmt, calc, line) == line \o <<LINESEP>>

\* add_line_breaks applied to one line
add_line_breaks(fmt, calc, line) ==
    IF Len(line) = calc.line_width THEN line \o fmt.wrapsep ELSE line \o <<LINESEP>>

\* the last statement of format: ''.join(lines).rstrip(self.linesep)
format(fmt, calc, lines) ==
    RStrip(Concat([n \in 1..Len(lines) |-> add_line_breaks(fmt, calc, lines[n])]),
           LINESEP)

\* print(text, file=output_stream), stream being what was written before
print(stream, text) == stream \o text \o <<LINESEP>>

\* ------------------------------------------------------ MappingFormatter
\* A mapping is the sequence of its entries <<key, value>>, in the order in
\* which it yields its keys.
keys(mapping) == [j \in 1..Len(mapping) |-> mapping[j][1]]

values(mapping) == [j \in 1..Len(mapping) |-> mapping[j][2]]

\* the objects that are passed as items: a mapping, or a generator of strings
MappingValue(mapping) == [type |-> "mapping", entries |-> mapping]

GeneratorValue(strings) == [type |-> "generator", strings |-> strings]

\* iter(value): iterating a mapping yields its keys
Iterate(value) ==
    IF value.type = "mapping" THEN keys(value.entries) ELSE value.strings

\* MappingFormatter.for_line_config: its num_columns and the default of its
\* min_shrink_width
MappingNumColumns == 2

DefaultMinShrinkWidth == 10

\* MappingFormatter.get_strings: only a mapping has keys() and values()
mapping_get_strings(value) ==
    IF value.type = "mapping"
    THEN [err |-> "none", mapping |-> value.entries]
    ELSE [err |-> "AttributeError", mapping |-> <<>>]

\* MappingFormatter.get_line_properties
mapping_get_line_properties(fmt, calc, mapping) ==
    get_line_properties(fmt, calc, keys(mapping) \o values(mapping))

\* make_line_chunks striding over key, value, key, value, ...
mapping_make_line_chunks_flat(mapping, props) ==
    make_line_chunks(
        [k \in 1..(2 * Len(mapping)) |-> mapping[(k + 1) \div 2][2 - (k % 2)]],
        props)

\* MappingFormatter.make_line_chunks
mapping_make_line_chunks(mapping, props) == Slice(mapping, 0, props.num_lines)

\* columnize: what it passes to the format method of the formatter it made
columnize_items(value) == GeneratorValue(Iterate(value))

\* ------------------------------------------------------------ the program
VARIABLES
    calculator,   \* the formatter's ColumnWidthCalculator
    formatter,    \* the formatter's own attributes
    pc,           \* "new" (nothing is constructed yet), "idle", "iter" (lines
                  \* are being yielded), "returned", "raised"
    items,        \* the strings of the current call
    props,        \* the LineProperties of the current call
    line_chunks,  \* the chunks of the current call
    template,     \* the template iter_formatted_lines has cached
    lines,        \* the lines iter_formatted_lines has yielded so far
    result,       \* the string format() returned
    error,        \* the exception the current call raised, or "none"
    call,         \* the function the current call entered through and its arguments
    written,      \* what the current call has written to its output stream
    locale,       \* the interpreter's LC_COLLATE setting, shared by all threads
    threads       \* the calls that run in threads of their own, with their locals

vars == <<calculator, formatter, pc, items, props, line_chunks, template,
          lines, result, error, call, written, locale, threads>>

\* the LC_COLLATE setting of an interpreter that never called setlocale
StartupLocale == "C"

\* no call runs in a thread of its own
NoThreads == <<>>

\* no call is under way
NoCall == [name |-> "none"]

NoProps == [err |-> "none", column_widths |-> <<>>, spacing |-> 0, num_lines |-> 0]

NoTemplate == [widths |-> <<>>, sep |-> <<>>]

OptionalNum(max) == {None} \cup (1..max)

Widths == UNION {[1..n -> 0..MaxItemWidth] : n \in 0..MaxItems}

\* ColumnWidthCalculator.__init__ and IterableFormatter.__init__
Init ==
    /\ calculator \in [spacing : 0..MaxSpacing,
                       line_width : 1..MaxLineWidth,
                       num_columns : OptionalNum(MaxNumColumns),
                       allow_exceeding : BOOLEAN,
                       min_shrink_width : OptionalNum(MaxShrinkWidth)]
    /\ \E extra_sep \in {None, ExtraSepChar}, wrap_lines \in BOOLEAN :
           formatter = [extra_sep |-> extra_sep, wrapsep |-> init_wrapsep(wrap_lines)]
    /\ pc = "idle"
    /\ items = <<>>
    /\ props = NoProps
    /\ line_chunks = <<>>
    /\ template = NoTemplate
    /\ lines = <<>>
    /\ result = <<>>
    /\ error = "none"
    /\ call = NoCall
    /\ written = <<>>
    /\ locale = StartupLocale
    /\ threads = NoThreads

\* make_lines up to the first line: the properties and the chunks are
\* computed before a line is asked for
MakeLines ==
    /\ pc = "idle"
    /\ \E widths \in Widths :
        \E strings \in {[k \in 1..Len(widths) |-> MakeItem(k, widths[k])]} :
        \E got \in {get_line_properties(formatter, calculator, strings)} :
            /\ items' = strings
            /\ calculator' = [calculator EXCEPT !.spacing = got.spacing]
            /\ props' = got.props
            /\ error' = got.props.err
            /\ IF got.props.err = "none"
               THEN /\ pc' = "iter"
                    /\ line_chunks' = make_line_chunks(strings, got.props)
                    /\ template' = make_line_template(formatter, got.props, None)
               ELSE /\ pc' = "raised"
                    /\ line_chunks' = <<>>
                    /\ template' = NoTemplate
    /\ lines' = <<>>
    /\ result' = <<>>
    /\ UNCHANGED <<locale, threads, formatter, call, written>>

\* iter_formatted_lines checking only now, line by line, that the items fit
\* their columns
NextLine_late_check ==
    /\ pc = "iter"
    /\ Len(lines) < Len(line_chunks)
    /\ \E done \in {format_chunk(formatter, props, template,
                                  line_chunks[Len(lines) + 1])} :
           /\ template' = done.template
           /\ IF done.err # "none"
              THEN pc' = "raised" /\ lines' = lines /\ error' = done.err
              ELSE /\ lines' = Append(lines, done.line)
                   /\ IF \E i \in 1..Len(props.column_widths) :
                            \E c \in 1..Len(line_chunks) :
                                /\ i <= Len(line_chunks[c])
                                /\ Len(line_chunks[c][i]) > props.column_widths[i]
                      THEN pc' = "raised" /\ error' = "LineTooSmallError"
                      ELSE pc' = "iter" /\ error' = "none"
    /\ UNCHANGED <<locale, threads>>
    /\ UNCHANGED <<calculator, formatter, items, props, line_chunks, result, call,
                   written>>

\* iter_formatted_lines yields its next line
NextLine ==
    /\ pc = "iter"
    /\ Len(lines) < Len(line_chunks)
    /\ \E done \in {format_chunk(formatter, props, template,
                                  line_chunks[Len(lines) + 1])} :
           /\ error' = done.err
           /\ template' = done.template
           /\ IF done.err = "none"
              THEN pc' = "iter" /\ lines' = Append(lines, done.line)
              ELSE pc' = "raised" /\ lines' = lines
    /\ UNCHANGED <<locale, threads>>
    /\ UNCHANGED <<calculator, formatter, items, props, line_chunks, result, call,
                   written>>

\* iter_formatted_lines is exhausted and format returns the joined lines;
\* print_columnized then prints them to its output stream
Return ==
    /\ pc = "iter"
    /\ Len(lines) = Len(line_chunks)
    /\ \E text \in {format(formatter, calculator, lines)} :
           /\ result' = text
           /\ written' = IF call.name = "print_columnized"
                         THEN print(written, text) ELSE written
    /\ pc' = "returned"
    /\ UNCHANGED <<locale, threads, calculator, formatter, items, props, line_chunks, template,
                   lines, error, call>>

\* the call is over: its result and its local names are dropped, the
\* formatter and its calculator stay as the call left them
Discard ==
    /\ pc \in {"returned", "raised"}
    /\ pc' = "idle"
    /\ items' = <<>>
    /\ props' = NoProps
    /\ line_chunks' = <<>>
    /\ template' = NoTemplate
    /\ lines' = <<>>
    /\ result' = <<>>
    /\ error' = "none"
    /\ call' = NoCall
    /\ written' = <<>>
    /\ UNCHANGED <<locale, threads, calculator, formatter>>

Next == MakeLines \/ NextLine \/ Return \/ Discard

Spec == Init /\ [][Next]_vars

\* ------------------------------------- calls of a MappingFormatter
\* the mappings of a call: entry j has the strings 2j - 1 and 2j of the
\* call as its key and its value; no two keys are equal
MakeMapping(widths) ==
    [j \in 1..Len(widths) |->
        <<MakeItem(2 * j - 1, widths[j][1]), MakeItem(2 * j, widths[j][2])>>]

EntryWidths ==
    {widths \in UNION {[1..n -> (0..MaxItemWidth) \X (0..MaxItemWidth)]
                          : n \in 0..MaxEntries} :
        \A a, b \in 1..Len(widths) :
            (a # b /\ widths[a][1] = 0) => widths[b][1] # 0}

\* MappingFormatter.for_line_config
MappingInit ==
    /\ calculator \in [spacing : 0..MaxSpacing,
                       line_width : 1..MaxLineWidth,
                       num_columns : {MappingNumColumns},
                       allow_exceeding : {FALSE},
                       min_shrink_width : OptionalNum(MaxShrinkWidth)
                                              \cup {DefaultMinShrinkWidth}]
    /\ \E extra_sep \in {None, ExtraSepChar} :
           formatter = [extra_sep |-> extra_sep, wrapsep |-> init_wrapsep(TRUE)]
    /\ pc = "idle"
    /\ items = <<>>
    /\ props = NoProps
    /\ line_chunks = <<>>
    /\ template = NoTemplate
    /\ lines = <<>>
    /\ result = <<>>
    /\ error = "none"
    /\ call = NoCall
    /\ written = <<>>
    /\ locale = StartupLocale
    /\ threads = NoThreads

\* MappingFormatter.format(value) up to the first line, entered through the
\* function name with the mapping given to it
MappingFormatCall(name, mapping, value) ==
    /\ call' = [name |-> name]
    /\ items' = mapping
    /\ \E strings \in {mapping_get_strings(value)} :
        IF strings.err # "none"
        THEN /\ pc' = "raised"
             /\ error' = strings.err
             /\ props' = NoProps
             /\ line_chunks' = <<>>
             /\ template' = NoTemplate
             /\ UNCHANGED calculator
        ELSE \E got \in {mapping_get_line_properties(formatter, calculator,
                                                     strings.mapping)} :
             /\ calculator' = [calculator EXCEPT !.spacing = got.spacing]
             /\ props' = got.props
             /\ error' = got.props.err
             /\ IF got.props.err = "none"
                THEN /\ pc' = "iter"
                     /\ line_chunks' = mapping_make_line_chunks(strings.mapping,
                                                                got.props)
                     /\ template' = make_line_template(formatter, got.props, None)
                ELSE /\ pc' = "raised"
                     /\ line_chunks' = <<>>
                     /\ template' = NoTemplate
    /\ lines' = <<>>
    /\ result' = <<>>
    /\ UNCHANGED <<locale, threads, formatter, written>>

\* formatter.format(mapping)
MappingFormat ==
    /\ pc = "idle"
    /\ \E widths \in EntryWidths :
           MappingFormatCall("format", MakeMapping(widths),
                             MappingValue(MakeMapping(widths)))

\* columnize(mapping, spacing, line_width): the formatter is the one that
\* MappingFormatter.for_line_config(spacing, line_width) makes
Columnize ==
    /\ pc = "idle"
    /\ calculator.min_shrink_width = DefaultMinShrinkWidth
    /\ \E widths \in EntryWidths :
           MappingFormatCall("columnize", MakeMapping(widths),
                             columnize_items(MappingValue(MakeMapping(widths))))

MappingNext == MappingFormat \/ Columnize \/ NextLine \/ Return \/ Discard

MappingSpec == MappingInit /\ [][MappingNext]_vars

\* ------------------------------------- calls of print_columnized
\* print_columnized(items, spacing=..., line_width=...): columnize makes the
\* formatter with IterableFormatter.for_line_config(spacing, line_width) and
\* formats items with it before anything is printed
PrintColumnized ==
    /\ pc = "idle"
    /\ calculator.num_columns = None /\ calculator.min_shrink_width = None
    /\ ~calculator.allow_exceeding
    /\ formatter.wrapsep = init_wrapsep(TRUE)
    /\ \E widths \in Widths :
        \E strings \in {[k \in 1..Len(widths) |-> MakeItem(k, widths[k])]} :
        \E got \in {get_line_properties(formatter, calculator, strings)} :
            /\ items' = strings
            /\ calculator' = [calculator EXCEPT !.spacing = got.spacing]
            /\ props' = got.props
            /\ error' = got.props.err
            /\ IF got.props.err = "none"
               THEN /\ pc' = "iter"
                    /\ line_chunks' = make_line_chunks(strings, got.props)
                    /\ template' = make_line_template(formatter, got.props, None)
               ELSE /\ pc' = "raised"
                    /\ line_chunks' = <<>>
                    /\ template' = NoTemplate
    /\ call' = [name |-> "print_columnized"]
    /\ lines' = <<>>
    /\ result' = <<>>
    /\ UNCHANGED <<locale, threads, formatter, written>>

PrintNext == MakeLines \/ PrintColumnized \/ NextLine \/ Return \/ Discard

PrintSpec == Init /\ [][PrintNext]_vars

\* ------------------------------------- calls of a fixed-mode calculator
\* the widths of the items of a call that fills at most one line of a
\* fixed-mode layout, with items wider than any line
FixedWidths ==
    UNION {[1..n -> 0..(MaxLineWidth + 1)] : n \in 0..MaxNumColumns}

\* ColumnWidthCalculator.__init__ with a num_columns, and
\* IterableFormatter.__init__
FixedInit ==
    /\ calculator \in [spacing : 0..MaxSpacing,
                       line_width : 1..MaxLineWidth,
                       num_columns : 1..MaxNumColumns,
                       allow_exceeding : BOOLEAN,
                       min_shrink_width : OptionalNum(MaxShrinkWidth)]
    /\ formatter = [extra_sep |-> None, wrapsep |-> init_wrapsep(TRUE)]
    /\ pc = "idle"
    /\ items = <<>>
    /\ props = NoProps
    /\ line_chunks = <<>>
    /\ template = NoTemplate
    /\ lines = <<>>
    /\ result = <<>>
    /\ error = "none"
    /\ call = NoCall
    /\ written = <<>>
    /\ locale = StartupLocale
    /\ threads = NoThreads

\* make_lines up to the first line, for the items of one line
MakeFixedLines ==
    /\ pc = "idle"
    /\ \E widths \in FixedWidths :
        \E strings \in {[k \in 1..Len(widths) |-> MakeItem(k, widths[k])]} :
        \E got \in {get_line_properties(formatter, calculator, strings)} :
            /\ items' = strings
            /\ calculator' = [calculator EXCEPT !.spacing = got.spacing]
            /\ props' = got.props
            /\ error' = got.props.err
            /\ IF got.props.err = "none"
               THEN /\ pc' = "iter"
                    /\ line_chunks' = make_line_chunks(strings, got.props)
                    /\ template' = make_line_template(formatter, got.props, None)
               ELSE /\ pc' = "raised"
                    /\ line_chunks' = <<>>
                    /\ template' = NoTemplate
    /\ lines' = <<>>
    /\ result' = <<>>
    /\ UNCHANGED <<locale, threads, formatter, call, written>>

FixedNext == MakeFixedLines \/ NextLine \/ Return \/ Discard

FixedSpec == FixedInit /\ [][FixedNext]_vars

\* ------------------------------------- calls of a free-mode calculator
\* the widths of the items of a call with more items than columns fit, none
\* of them empty
SearchWidths ==
    UNION {[1..n -> 1..(MaxSpacing + 1)] : n \in 0..(MaxItems + 2)}

\* ColumnWidthCalculator.__init__ without a num_columns, and
\* IterableFormatter.__init__
SearchInit ==
    /\ calculator \in [spacing : 0..MaxSpacing,
                       line_width : 1..(2 * MaxLineWidth),
                       num_columns : {None},
                       allow_exceeding : {FALSE},
                       min_shrink_width : {None}]
    /\ formatter = [extra_sep |-> None, wrapsep |-> init_wrapsep(TRUE)]
    /\ pc = "idle"
    /\ items = <<>>
    /\ props = NoProps
    /\ line_chunks = <<>>
    /\ template = NoTemplate
    /\ lines = <<>>
    /\ result = <<>>
    /\ error = "none"
    /\ call = NoCall
    /\ written = <<>>
    /\ locale = StartupLocale
    /\ threads = NoThreads

\* make_lines up to the first line, for a list of many short items
MakeSearchLines ==
    /\ pc = "idle"
    /\ \E widths \in SearchWidths :
        \E strings \in {[k \in 1..Len(widths) |-> MakeItem(k, widths[k])]} :
        \E got \in {get_line_properties(formatter, calculator, strings)} :
            /\ items' = strings
            /\ calculator' = [calculator EXCEPT !.spacing = got.spacing]
            /\ props' = got.props
            /\ error' = got.props.err
            /\ IF got.props.err = "none"
               THEN /\ pc' = "iter"
                    /\ line_chunks' = make_line_chunks(strings, got.props)
                    /\ template' = make_line_template(formatter, got.props, None)
               ELSE /\ pc' = "raised"
                    /\ line_chunks' = <<>>
                    /\ template' = NoTemplate
    /\ lines' = <<>>
    /\ result' = <<>>
    /\ UNCHANGED <<locale, threads, formatter, call, written>>

SearchNext == MakeSearchLines \/ NextLine \/ Return \/ Discard

SearchSpec == SearchInit /\ [][SearchNext]_vars

\* ------------------------------------- the construction of a calculator
\* the values given as spacing, line_width and num_columns
Values ==
    {NoneValue}
        \cup {IntValue(n) : n \in -1..MaxLineWidth}
        \cup {FloatValue(halves) : halves \in {-1, 0, 1, 3}}
        \cup {StrValue(chars) : chars \in {<<"0">>, <<"1">>, <<"2">>, <<"-", "1">>,
                                            <<"-", "0">>, <<"1", ".", "0">>,
                                            <<"x">>, <<>>}}

\* no calculator has been constructed
NoCalculator ==
    [spacing |-> None, line_width |-> None, num_columns |-> None,
     allow_exceeding |-> FALSE, min_shrink_width |-> None]

\* ColumnWidthCalculator(spacing, line_width, num_columns) is about to be
\* called
ConstructInit ==
    /\ call \in [name : {"ColumnWidthCalculator"}, spacing : Values,
                  line_width : Values, num_columns : Values]
    /\ calculator = NoCalculator
    /\ formatter = [extra_sep |-> None, wrapsep |-> init_wrapsep(TRUE)]
    /\ pc = "new"
    /\ items = <<>>
    /\ props = NoProps
    /\ line_chunks = <<>>
    /\ template = NoTemplate
    /\ lines = <<>>
    /\ result = <<>>
    /\ error = "none"
    /\ written = <<>>
    /\ locale = StartupLocale
    /\ threads = NoThreads

\* the constructor runs: it returns the calculator or raises
Construct ==
    /\ pc = "new"
    /\ \E made \in {ColumnWidthCalculator(call.spacing, call.line_width,
                                           call.num_columns, FALSE, NoneValue)} :
           IF made.err = "none"
           THEN pc' = "idle" /\ calculator' = made.calculator /\ error' = "none"
           ELSE pc' = "raised" /\ calculator' = calculator /\ error' = made.err
    /\ UNCHANGED <<locale, threads>>
    /\ UNCHANGED <<formatter, items, props, line_chunks, template, lines, result,
                   call, written>>

ConstructNext == Construct

ConstructSpec == ConstructInit /\ [][ConstructNext]_vars

\* ------------------------------------- calls in threads of one interpreter
\* helpers.get_sorted and columnize, each entered by a thread of its own; a
\* thread's locals are its record in threads, the LC_COLLATE setting is
\* shared.
Threads == {1, 2}

\* the settings the platform accepts for LC_COLLATE
Locales == {"C", "en_US", "German_Germany"}

\* what setlocale(LC_COLLATE, '') selects: the user's default setting
DefaultLocale == "en_US"

\* locale.getlocale(LC_COLLATE): the setting as the locale module names it,
\* which for a platform-specific name is a name the platform does not accept
getlocale(setting) == IF setting = "German_Germany" THEN "de_DE" ELSE setting

\* locale.setlocale(LC_COLLATE, name): the setting afterwards, or locale.Error
\* with the setting left as it was
setlocale(setting, name) ==
    IF name = "" THEN [err |-> "none", setting |-> DefaultLocale]
    ELSE IF name \in Locales THEN [err |-> "none", setting |-> name]
    ELSE [err |-> "locale.Error", setting |-> setting]

\* the weight of a character in the collation order of a setting: its code
\* point in the C locale, another order elsewhere
CollationWeight(setting, char) ==
    IF setting = "C" THEN char ELSE (char % 10) * 10 + char \div 10

\* locale.strcoll(a, b) under a setting: negative, zero or positive
RECURSIVE strcoll(_, _, _)
strcoll(setting, a, b) ==
    IF a = <<>> /\ b = <<>> THEN 0
    ELSE IF a = <<>> THEN -1
    ELSE IF b = <<>> THEN 1
    ELSE IF CollationWeight(setting, Head(a)) < CollationWeight(setting, Head(b)) THEN -1
    ELSE IF CollationWeight(setting, Head(a)) > CollationWeight(setting, Head(b)) THEN 1
    ELSE strcoll(setting, Tail(a), Tail(b))

\* sorted(strings, key=cmp_to_key(locale.strcoll)) under a setting, a stable
\* sort; sorted(strings) is the same under the order of code points
RECURSIVE sorted(_, _)
sorted(strings, setting) ==
    LET insert(x, done) ==
            LET before == Cardinality({i \in 1..Len(done) : strcoll(setting, done[i], x) <= 0})
            IN  SubSeq(done, 1, before) \o <<x>> \o SubSeq(done, before + 1, Len(done))
    IN  IF strings = <<>> THEN <<>>
        ELSE insert(strings[Len(strings)],
                    sorted(SubSeq(strings, 1, Len(strings) - 1), setting))

\* iter_formatted_lines run to its end: all lines, or the first error
RECURSIVE iter_formatted_lines(_, _, _, _)
iter_formatted_lines(fmt, line_props, cached, chunks) ==
    LET more(line, tail) == [err |-> tail.err, lines |-> <<line>> \o tail.lines]
        rest(done) ==
            IF done.err # "none" THEN [err |-> done.err, lines |-> <<>>]
            ELSE more(done.line,
                      iter_formatted_lines(fmt, line_props, done.template, Tail(chunks)))
    IN  IF chunks = <<>> THEN [err |-> "none", lines |-> <<>>]
        ELSE rest(format_chunk(fmt, line_props, cached, Head(chunks)))

\* a thread that has not entered its call; entered tells the how-manieth
\* call a thread's call was when it was entered, found the LC_COLLATE setting
\* at that moment
NoThread ==
    [pc |-> "start", name |-> "none", entered |-> 0, items |-> <<>>,
     locale_name |-> "",
     strict |-> FALSE, found |-> "", old_locale |-> "",
     locale_name_was_set |-> FALSE, sorted_under |-> "", result |-> <<>>,
     error |-> "none", calculator |-> NoCalculator,
     formatter |-> [extra_sep |-> None, wrapsep |-> <<>>], props |-> NoProps]

\* how many threads have entered their calls
Entered == Cardinality({t \in Threads : threads[t].pc # "start"})

\* the lists of strings given to get_sorted: two strings that the C locale
\* and the other settings put in different orders
SortLists == [1..2 -> {<<ItemChar(1, 2)>>, <<ItemChar(2, 1)>>}]

\* the names given to get_sorted as locale_name
LocaleNames == {"", "C", "xx_XX"}

\* the widths of the items given to columnize by a thread
ThreadWidths == UNION {[1..n -> 0..1] : n \in 0..2}

\* the interpreter with the LC_COLLATE setting the program has made before
\* the threads start
LocaleInit ==
    /\ locale \in Locales
    /\ threads = [t \in Threads |-> NoThread]
    /\ calculator = NoCalculator
    /\ formatter = [extra_sep |-> None, wrapsep |-> init_wrapsep(TRUE)]
    /\ pc = "new"
    /\ items = <<>>
    /\ props = NoProps
    /\ line_chunks = <<>>
    /\ template = NoTemplate
    /\ lines = <<>>
    /\ result = <<>>
    /\ error = "none"
    /\ call = NoCall
    /\ written = <<>>

\* what a step of a thread leaves alone
ThreadFrame ==
    UNCHANGED <<calculator, formatter, pc, items, props, line_chunks, template,
                lines, result, error, call, written>>

\* a thread calls get_sorted(items, locale_name, strict)
GetSortedCall(t) ==
    /\ threads[t].pc = "start"
    /\ \E strings \in SortLists, locale_name \in LocaleNames, strict \in BOOLEAN :
           threads' = [threads EXCEPT ![t] =
                          [@ EXCEPT !.pc = "getlocale", !.name = "get_sorted",
                                    !.entered = Entered + 1,
                                    !.items = strings, !.locale_name = locale_name,
                                    !.strict = strict, !.found = locale]]
    /\ UNCHANGED locale
    /\ ThreadFrame

\* old_locale = locale.getlocale(locale.LC_COLLATE)
GetLocale(t) ==
    /\ threads[t].pc = "getlocale"
    /\ threads' = [threads EXCEPT ![t] =
                      [@ EXCEPT !.pc = "set_old", !.old_locale = getlocale(locale)]]
    /\ UNCHANGED locale
    /\ ThreadFrame

\* locale.setlocale(locale.LC_COLLATE, old_locale)
SetOldLocale(t) ==
    /\ threads[t].pc = "set_old"
    /\ \E set \in {setlocale(locale, threads[t].old_locale)} :
           /\ locale' = set.setting
           /\ threads' = [threads EXCEPT ![t] =
                             [@ EXCEPT !.pc = IF set.err = "none" THEN "set_new"
                                              ELSE "except"]]
    /\ ThreadFrame

\* locale.setlocale(locale.LC_COLLATE, locale_name) and
\* locale_name_was_set = True
SetLocaleName(t) ==
    /\ threads[t].pc = "set_new"
    /\ \E set \in {setlocale(locale, threads[t].locale_name)} :
           /\ locale' = set.setting
           /\ threads' = [threads EXCEPT ![t] =
                             IF set.err = "none"
                             THEN [@ EXCEPT !.pc = "sort", !.locale_name_was_set = TRUE]
                             ELSE [@ EXCEPT !.pc = "except"]]
    /\ ThreadFrame

\* result = sorted(items, key=sortkey), locale.strcoll comparing under the
\* setting of the moment
Sort(t) ==
    /\ threads[t].pc = "sort"
    /\ threads' = [threads EXCEPT ![t] =
                      [@ EXCEPT !.pc = "finally", !.sorted_under = locale,
                                !.result = sorted(threads[t].items, locale)]]
    /\ UNCHANGED locale
    /\ ThreadFrame

\* except locale.Error: raise if strict, else result = sorted(items)
Except(t) ==
    /\ threads[t].pc = "except"
    /\ threads' = [threads EXCEPT ![t] =
                      IF threads[t].strict
                      THEN [@ EXCEPT !.pc = "finally", !.error = "locale.Error"]
                      ELSE [@ EXCEPT !.pc = "finally",
                                     !.result = sorted(threads[t].items, "C")]]
    /\ UNCHANGED locale
    /\ ThreadFrame

\* the finally clause leaving the setting as it is
Finally_no_restore(t) ==
    /\ threads[t].pc = "finally"
    /\ locale' = locale
    /\ threads' = [threads EXCEPT ![t] = [@ EXCEPT !.pc = "done"]]
    /\ ThreadFrame

\* finally: locale.setlocale(locale.LC_COLLATE, old_locale) if
\* locale_name_was_set; then get_sorted returns result or the error goes on
Finally(t) ==
    /\ threads[t].pc = "finally"
    /\ \E set \in {IF threads[t].locale_name_was_set
                   THEN setlocale(locale, threads[t].old_locale)
                   ELSE [err |-> "none", setting |-> locale]} :
           /\ locale' = set.setting
           /\ threads' = [threads EXCEPT ![t] =
                             [@ EXCEPT !.pc = "done",
                                       !.error = IF set.err = "none" THEN @ ELSE set.err]]
    /\ ThreadFrame

\* a thread calls columnize(items, spacing, line_width) with sort_items left
\* False: the call makes a formatter of its own with for_line_config
ColumnizeCall(t) ==
    /\ threads[t].pc = "start"
    /\ \E widths \in ThreadWidths, spacing \in 0..MaxSpacing :
        \E made \in {ColumnWidthCalculator(IntValue(spacing), IntValue(MaxLineWidth),
                                            NoneValue, FALSE, NoneValue)} :
           threads' = [threads EXCEPT ![t] =
                          [@ EXCEPT !.pc = "make_lines", !.name = "columnize",
                                    !.entered = Entered + 1,
                                    !.items = [k \in 1..Len(widths) |->
                                                  MakeItem(k, widths[k])],
                                    !.found = locale,
                                    !.calculator = made.calculator,
                                    !.formatter = [extra_sep |-> None,
                                                   wrapsep |-> init_wrapsep(TRUE)]]]
    /\ UNCHANGED locale
    /\ ThreadFrame

\* format, sort_items being False: make_lines up to the line properties
ThreadMakeLines(t) ==
    /\ threads[t].pc = "make_lines"
    /\ \E got \in {get_line_properties(threads[t].formatter, threads[t].calculator,
                                       threads[t].items)} :
           threads' = [threads EXCEPT ![t] =
                          [@ EXCEPT !.pc = IF got.props.err = "none" THEN "format"
                                           ELSE "done",
                                    !.calculator = [@ EXCEPT !.spacing = got.spacing],
                                    !.props = got.props,
                                    !.error = got.props.err]]
    /\ UNCHANGED locale
    /\ ThreadFrame

\* format: the lines are made and joined, and columnize returns the string
ThreadFormat(t) ==
    /\ threads[t].pc = "format"
    /\ \E made \in {iter_formatted_lines(
                        threads[t].formatter, threads[t].props,
                        make_line_template(threads[t].formatter, threads[t].props, None),
                        make_line_chunks(threads[t].items, threads[t].props))} :
           threads' = [threads EXCEPT ![t] =
                          [@ EXCEPT !.pc = "done",
                                    !.error = made.err,
                                    !.result = IF made.err = "none"
                                               THEN format(threads[t].formatter,
                                                           threads[t].calculator,
                                                           made.lines)
                                               ELSE <<>>]]
    /\ UNCHANGED locale
    /\ ThreadFrame

LocaleNext ==
    \E t \in Threads :
        \/ GetSortedCall(t)
        \/ GetLocale(t)
        \/ SetOldLocale(t)
        \/ SetLocaleName(t)
        \/ Sort(t)
        \/ Except(t)
        \/ Finally(t)
        \/ ColumnizeCall(t)
        \/ ThreadMakeLines(t)
        \/ ThreadFormat(t)

LocaleSpec == LocaleInit /\ [][LocaleNext]_vars

\* ------------------------------------------------------------ properties
\* the widths the calculator was given in the current call
ItemWidths == [k \in 1..Len(items) |-> Len(items[k])]

NumItems == Len(items)

\* the calculator as it was while the current call computed its properties
UsedCalc == [calculator EXCEPT !.spacing = props.spacing]

\* calculate_columns has just returned or raised: the properties of the
\* current call are known and no line has been yielded yet
Computed == pc \in {"iter", "raised"} /\ lines = <<>>

FreeMode == calculator.num_columns = None

\* the current call left calculate_columns through its allow_exceeding branch
Escaped ==
    /\ items # <<>>
    /\ get_column_config(UsedCalc, ItemWidths).err = "LineTooSmallError"
    /\ props.err = "none"

\* the text lines of a string: its parts between line separators
RECURSIVE TextLines(_)
TextLines(s) ==
    LET breaks == {i \in 1..Len(s) : s[i] = LINESEP}
        first == CHOOSE i \in breaks : \A j \in breaks : i <= j
    IN  IF breaks = {} THEN <<s>>
        ELSE <<SubSeq(s, 1, first - 1)>> \o TextLines(SubSeq(s, first + 1, Len(s)))

\* n is the least number with n * d >= x
IsCeilDiv(n, x, d) == n * d >= x /\ (n - 1) * d < x

\* none of the text lines is longer than line_width
FitsLineWidth(text_lines) ==
    \A t \in 1..Len(text_lines) : Len(text_lines[t]) <= calculator.line_width

\* C1: a formatter whose wrapsep is the line separator, as for_line_config
\* builds it, emits no text line longer than line_width: neither a line that
\* make_lines yields, nor a sub-line of a wrapped row, nor a line of the
\* string that format returns.
C1_WidthInvariant ==
    (pc \in {"iter", "returned"} /\ formatter.wrapsep = <<LINESEP>>) =>
        /\ \A n \in 1..Len(lines) : FitsLineWidth(TextLines(lines[n]))
        /\ FitsLineWidth(TextLines(result))

\* for_line_config(spacing, line_width) formatted three items in two columns
\* and two rows, the first row filling the line
C1_Witness ==
    /\ pc = "returned"
    /\ FreeMode /\ ~calculator.allow_exceeding
    /\ calculator.min_shrink_width = None
    /\ formatter = [extra_sep |-> None, wrapsep |-> <<LINESEP>>]
    /\ NumItems = 3
    /\ Len(props.column_widths) = 2
    /\ Len(lines) = 2
    /\ Len(lines[1]) = calculator.line_width
    /\ props.spacing > 0

\* the balanced column-major configurations of the current call's items, one
\* for every column count in 1..N, that fit the line
FittingCandidates ==
    {cfg \in {get_unchecked_column_config(ItemWidths, c) : c \in 1..NumItems} :
        get_used_line_width(UsedCalc, cfg.column_widths) <= calculator.line_width}

\* C2: in free mode, whenever a column count in 1..N yields a configuration
\* that fits line_width, the calculator returns the fitting configuration
\* with the greatest number of columns.  (A call that ends in the upper
\* bound's division by zero returns no configuration at all and is left to
\* C29.)
C2_MostColumns ==
    (Computed /\ FreeMode /\ items # <<>> /\ FittingCandidates # {}
            /\ props.err # "ZeroDivisionError") =>
        /\ props.err = "none"
        /\ \E cfg \in FittingCandidates :
               /\ props.column_widths = cfg.column_widths
               /\ props.num_lines = cfg.num_lines
        /\ \A cfg \in FittingCandidates :
               Len(cfg.column_widths) <= Len(props.column_widths)

\* C3: a result of calculate_columns has num_lines = ceil(N / columns) for
\* N >= 1 items and is ([], 0) for no items, and format([]) returns ''.
C3_NumLines ==
    /\ (Computed /\ props.err = "none") =>
           /\ items # <<>> =>
                  /\ props.column_widths # <<>>
                  /\ IsCeilDiv(props.num_lines, NumItems, Len(props.column_widths))
           /\ items = <<>> => props.column_widths = <<>> /\ props.num_lines = 0
    /\ (pc \in {"returned", "raised"} /\ items = <<>>) =>
           pc = "returned" /\ result = <<>>

\* three items in two columns need two lines
C3_Witness ==
    /\ Computed /\ props.err = "none"
    /\ NumItems = 3
    /\ Len(props.column_widths) = 2
    /\ props.num_lines = 2

\* C4: a configuration that calculate_columns returns without taking its
\* allow_exceeding branch fits the line, in free mode and in fixed mode,
\* shrinked or not.
C4_Fits ==
    (Computed /\ props.err = "none" /\ items # <<>> /\ ~Escaped) =>
        Sum(props.column_widths) + props.spacing * (Len(props.column_widths) - 1)
            <= calculator.line_width

\* fixed mode: two columns that did not fit were shrinked
C4_Witness ==
    /\ Computed /\ props.err = "none"
    /\ calculator.num_columns = 2
    /\ calculator.min_shrink_width # None
    /\ Len(props.column_widths) = 2
    /\ ~fits_in_line(UsedCalc,
                     get_unchecked_column_config(ItemWidths, 2).column_widths)
    /\ ~Escaped

\* the (0-based) positions of the items of column i when a column holds
\* num_lines items
ColumnMembers(i, num_lines) ==
    {k \in 0..(NumItems - 1) : i * num_lines <= k /\ k < i * num_lines + num_lines}

\* C5: get_unchecked_column_config groups the items column-major in
\* contiguous runs of num_lines = ceil(N / max_columns) items: a column is as
\* wide as its widest member, every column but the last holds num_lines items
\* and the last one between 1 and num_lines.
C5_Grouping ==
    (Computed /\ items # <<>>) =>
        \A max_columns \in 1..NumItems :
            LET cfg == get_unchecked_column_config(ItemWidths, max_columns)
                num_columns == Len(cfg.column_widths)
            IN  /\ IsCeilDiv(cfg.num_lines, NumItems, max_columns)
                /\ num_columns >= 1
                /\ \A i \in 0..(num_columns - 1) :
                       LET members == ColumnMembers(i, cfg.num_lines)
                       IN  /\ members # {}
                           /\ \A k \in members : ItemWidths[k + 1] <= cfg.column_widths[i + 1]
                           /\ \E k \in members : ItemWidths[k + 1] = cfg.column_widths[i + 1]
                           /\ i < num_columns - 1 => Cardinality(members) = cfg.num_lines
                /\ UNION {ColumnMembers(i, cfg.num_lines) : i \in 0..(num_columns - 1)}
                       = 0..(NumItems - 1)

\* fixed mode: three items in two columns, the last column holding one item
\* that is wider than the first column's second item
C5_Witness ==
    /\ Computed /\ props.err = "none"
    /\ calculator.num_columns = 2
    /\ NumItems = 3
    /\ props.num_lines = 2
    /\ props.column_widths = <<ItemWidths[1], ItemWidths[3]>>
    /\ ItemWidths[2] < ItemWidths[1]
    /\ ItemWidths[2] < ItemWidths[3]

\* the columns that have an item in (0-based) row r
RowColumns(r) == {i \in 0..(NumItems - 1) : i * props.num_lines + r < NumItems}

\* C6: make_line_chunks puts items[i * num_lines + r] into column i of row
\* r; every item is in exactly one cell and reading the columns from top to
\* bottom and from left to right gives the items in their order.
C6_ColumnMajor ==
    (pc \in {"iter", "returned"}) =>
        /\ Len(line_chunks) = props.num_lines
        /\ \A r \in 0..(props.num_lines - 1) :
               /\ Len(line_chunks[r + 1]) = Cardinality(RowColumns(r))
               /\ \A i \in RowColumns(r) :
                      line_chunks[r + 1][i + 1] = items[i * props.num_lines + r + 1]
        /\ Sum([r \in 1..Len(line_chunks) |-> Len(line_chunks[r])]) = NumItems
        /\ [k \in 1..NumItems |->
               line_chunks[((k - 1) % props.num_lines) + 1]
                          [((k - 1) \div props.num_lines) + 1]] = items

\* three items of different widths in two rows: the first row holds the
\* first and the third item, the second row the second item
C6_Witness ==
    /\ pc = "iter"
    /\ NumItems = 3
    /\ props.num_lines = 2
    /\ line_chunks = <<<<items[1], items[3]>>, <<items[2]>>>>
    /\ Cardinality({items[1], items[2], items[3]}) = 3

\* C7: in free mode with allow_exceeding off, calculate_columns raises
\* LineTooSmallError exactly if an item is wider than line_width.
C7_TooSmall ==
    (Computed /\ FreeMode /\ ~calculator.allow_exceeding) =>
        (props.err = "LineTooSmallError"
            <=> \E k \in 1..NumItems : ItemWidths[k] > calculator.line_width)

\* the widest of several items is exactly as wide as the line: one column,
\* no error
C7_Witness ==
    /\ Computed /\ FreeMode /\ ~calculator.allow_exceeding
    /\ NumItems >= 2
    /\ SeqMax(ItemWidths) = calculator.line_width
    /\ props.err = "none"
    /\ props.column_widths = <<calculator.line_width>>
    /\ props.num_lines = NumItems

\* C8: in free mode with allow_exceeding on, when an item is wider than
\* line_width, calculate_columns returns one column as wide as the widest
\* item and as many lines as there are items.
C8_WidestItem ==
    (Computed /\ FreeMode /\ calculator.allow_exceeding
            /\ \E k \in 1..NumItems : ItemWidths[k] > calculator.line_width) =>
        /\ props.err = "none"
        /\ props.column_widths = <<SeqMax(ItemWidths)>>
        /\ props.num_lines = NumItems

\* C9: with allow_exceeding on and an item wider than line_width, make_lines
\* yields one line per item and each line is the whole item: not padded, not
\* truncated and without a line separator in it.
C9_WholeItems ==
    (pc \in {"iter", "returned"} /\ FreeMode /\ calculator.allow_exceeding
            /\ \E k \in 1..NumItems : ItemWidths[k] > calculator.line_width) =>
        /\ \A n \in 1..Len(lines) : lines[n] = items[n]
        /\ pc = "returned" => Len(lines) = NumItems

\* where column i (1-based) starts in a line, counted from 0
ColumnStart(i) ==
    Sum([j \in 1..(i - 1) |-> props.column_widths[j] + props.spacing])

\* no item of the chunk is wider than its column and one of them is not empty
PlainRow(chunk) ==
    /\ \A i \in 1..Len(chunk) : Len(chunk[i]) <= props.column_widths[i]
    /\ \E i \in 1..Len(chunk) : chunk[i] # <<>>

\* C10: without an extra separator, the cell of a column that has a right
\* neighbour fills its column's width and is followed by exactly spacing
\* blanks, after which the neighbour's cell starts; and when all items fit on
\* one line, format returns the items joined by spacing blanks.
C10_Spacing ==
    /\ (pc \in {"iter", "returned"} /\ formatter.extra_sep = None) =>
           \A n \in 1..Len(lines) :
               PlainRow(line_chunks[n]) =>
                   \A i \in 1..(Len(line_chunks[n]) - 1) :
                       LET chunk == line_chunks[n]
                           width == props.column_widths[i]
                           start == ColumnStart(i)
                       IN  /\ SubSeq(lines[n], start + 1, start + width)
                                  = chunk[i] \o Repeat(Blank, width - Len(chunk[i]))
                           /\ SubSeq(lines[n], start + width + 1,
                                     start + width + props.spacing)
                                  = Repeat(Blank, props.spacing)
                           /\ ColumnStart(i + 1) = start + width + props.spacing
                           /\ SubSeq(lines[n], ColumnStart(i + 1) + 1,
                                     ColumnStart(i + 1) + Len(chunk[i + 1]))
                                  = chunk[i + 1]
    /\ (pc \in {"returned", "raised"} /\ formatter.extra_sep = None /\ FreeMode
            /\ items # <<>>
            /\ get_used_line_width(UsedCalc, ItemWidths) <= calculator.line_width) =>
           /\ pc = "returned"
           /\ result = Join(Repeat(Blank, props.spacing), items)

\* the characters of cell i of a chunk that sub-line k (counted from 0) of
\* its row shows: the item cut to the k-th stretch of its column's width
CellText(chunk, i, k) ==
    Slice(chunk[i], props.column_widths[i] * k, props.column_widths[i] * (k + 1))

\* every cell of the chunk but the last fills its column's width in every
\* sub-line, left-justified and padded with blanks, and the last cell is cut
\* to its column's width and ends the sub-line
CellsFillColumns(chunk, sub_lines) ==
    \A k \in 1..Len(sub_lines) :
        /\ \A i \in 1..(Len(chunk) - 1) :
               SubSeq(sub_lines[k], ColumnStart(i) + 1,
                      ColumnStart(i) + props.column_widths[i])
                   = CellText(chunk, i, k - 1)
                       \o Repeat(Blank, props.column_widths[i]
                                            - Len(CellText(chunk, i, k - 1)))
        /\ SubSeq(sub_lines[k], ColumnStart(Len(chunk)) + 1, Len(sub_lines[k]))
               = CellText(chunk, Len(chunk), k - 1)
        /\ Len(sub_lines[k])
               = ColumnStart(Len(chunk)) + Len(CellText(chunk, Len(chunk), k - 1))

\* no sub-line ends in a blank
NoTrailingBlanks(sub_lines) ==
    \A k \in 1..Len(sub_lines) :
        sub_lines[k] # <<>> => sub_lines[k][Len(sub_lines[k])] # Blank

\* iter_formatted_lines has just yielded a line of a layout with two or more
\* columns, its sub-lines joined by the line separator
YieldedMultiColumn ==
    /\ pc = "iter" /\ lines # <<>>
    /\ formatter.wrapsep = <<LINESEP>>
    /\ Len(props.column_widths) >= 2

\* C11: in every line of a layout with two or more columns, a cell that is
\* not the last of its row fills exactly its column's width (left-justified,
\* padded with blanks, cut on the right when longer), the last cell is cut to
\* its column's width and never padded, and no line ends in a blank.
C11_NoTrailingBlanks ==
    YieldedMultiColumn =>
        /\ CellsFillColumns(line_chunks[Len(lines)], TextLines(lines[Len(lines)]))
        /\ NoTrailingBlanks(TextLines(lines[Len(lines)]))

\* the part of C11 about the cells alone
C11_CellsOnly ==
    YieldedMultiColumn =>
        CellsFillColumns(line_chunks[Len(lines)], TextLines(lines[Len(lines)]))

\* the widths of the keys and of the values of the current call's mapping
KeyWidths == [j \in 1..Len(items) |-> Len(items[j][1])]

ValueWidths == [j \in 1..Len(items) |-> Len(items[j][2])]

C13_ColumnizeMapping ==
    (/\ call.name = "columnize"
     /\ items # <<>>
     /\ Computed
     /\ fits_in_line(calculator, <<SeqMax(KeyWidths), SeqMax(ValueWidths)>>)) =>
        /\ pc = "iter"
        /\ props.num_lines = Len(items)
        /\ props.column_widths = <<SeqMax(KeyWidths), SeqMax(ValueWidths)>>
        /\ line_chunks = items

\* the configuration that get_column_config returns for the current call's
\* widths in fixed mode, when it does not raise
FixedConfig == get_column_config(UsedCalc, ItemWidths)

FixedAccepted ==
    /\ Computed /\ ~FreeMode /\ items # <<>>
    /\ FixedConfig.err = "none"

\* C14 as stated: in fixed mode get_column_config returns exactly num_columns
\* columns for every non-empty item_widths that it does not reject.
C14_ExactlyK ==
    FixedAccepted => Len(FixedConfig.column_widths) = calculator.num_columns

\* C14 as amended: in fixed mode get_column_config returns at most
\* num_columns columns for every non-empty item_widths that it does not
\* reject: with N items it uses ceil(N / num_columns) lines and
\* ceil(N / lines) columns, which is num_columns when num_columns divides N.
C14_AtMostK ==
    FixedAccepted =>
        /\ Len(FixedConfig.column_widths) <= calculator.num_columns
        /\ IsCeilDiv(FixedConfig.num_lines, NumItems, calculator.num_columns)
        /\ IsCeilDiv(Len(FixedConfig.column_widths), NumItems, FixedConfig.num_lines)
        /\ NumItems % calculator.num_columns = 0
               => Len(FixedConfig.column_widths) = calculator.num_columns

\* three items accepted for two columns, and laid out in two columns
C14_Witness ==
    /\ FixedAccepted
    /\ calculator.num_columns = 2 /\ NumItems = 3
    /\ Len(FixedConfig.column_widths) = 2

\* C15: when the items do not fit, the error is raised before any output:
\* make_lines has yielded no line, format has returned no string and
\* print_columnized has written nothing to its output stream.
C15_NothingBeforeError ==
    (pc = "raised" /\ error = "LineTooSmallError") =>
        /\ lines = <<>>
        /\ result = <<>>
        /\ written = <<>>

\* print_columnized was given several items, one of them too wide for the
\* line, and raised
C15_Witness ==
    /\ call.name = "print_columnized"
    /\ pc = "raised" /\ error = "LineTooSmallError"
    /\ Len(items) >= 2
    /\ \E k \in 1..Len(items) : Len(items[k]) <= calculator.line_width

\* the value is a negative number; the value is an integer (a str of digits
\* and a float without a fraction count as integers)
IsNegative(value) ==
    \/ value.type \in {"int", "float"} /\ value.number < 0
    \/ value.type = "str" /\ int(value).err = "none" /\ int(value).number < 0

IsInteger(value) ==
    \/ value.type = "int"
    \/ value.type = "float" /\ value.number % 2 = 0
    \/ value.type = "str" /\ int(value).err = "none"

\* a value other than None that is negative or not an integer
Invalid(value) ==
    value.type # "NoneType" /\ (IsNegative(value) \/ ~IsInteger(value))

\* C16: the constructor rejects a spacing or a line width that is negative
\* or not an integer with ValueError; a calculator that was constructed has
\* no line width of 0; and its num_columns is None only if None was given.
C16_InvalidRejected ==
    (call.name = "ColumnWidthCalculator" /\ pc # "new") =>
        /\ (Invalid(call.spacing) \/ Invalid(call.line_width))
               => (pc = "raised" /\ error = "ValueError")
        /\ pc = "idle" => calculator.line_width # 0
        /\ (pc = "idle" /\ calculator.num_columns = None)
               => call.num_columns = NoneValue

\* the widths that get_unchecked_column_config gives the current call's
\* columns in fixed mode, before they are shrinked
Unshrinked ==
    get_unchecked_column_config(ItemWidths, calculator.num_columns).column_widths

\* the current call is one in fixed mode whose columns do not fit and may be
\* shrinked; it succeeded in shrinking them
ShrinkCase ==
    /\ Computed /\ ~FreeMode /\ items # <<>>
    /\ calculator.min_shrink_width # None
    /\ ~fits_in_line(UsedCalc, Unshrinked)

ShrinkSucceeded == ShrinkCase /\ FixedConfig.err = "none"

\* C17: when shrink_column_widths succeeds on a configuration that does not
\* fit, its result has as many columns as the configuration, and the used
\* line width of the result is line_width exactly: the widths were reduced by
\* the overflow in total, and by no more.
C17_ExactFit ==
    ShrinkSucceeded =>
        /\ Len(FixedConfig.column_widths) = Len(Unshrinked)
        /\ get_used_line_width(UsedCalc, FixedConfig.column_widths)
               = calculator.line_width
        /\ Sum(Unshrinked) - Sum(FixedConfig.column_widths)
               = get_used_line_width(UsedCalc, Unshrinked) - calculator.line_width

\* two columns were both reduced, the left one to more than
\* min_shrink_width, and lines are made with the result
C17_Witness ==
    /\ ShrinkSucceeded /\ pc = "iter"
    /\ Len(Unshrinked) = 2
    /\ props.column_widths = FixedConfig.column_widths
    /\ \A i \in 1..2 : props.column_widths[i] < Unshrinked[i]
    /\ props.column_widths[1] > calculator.min_shrink_width

\* C18: shrink_column_widths shrinks from the rightmost column leftward: a
\* column that is at most min_shrink_width wide is returned unchanged, no
\* column is reduced below min_shrink_width (and none grows), and a column is
\* reduced only if every column to its right is at most min_shrink_width
\* wide in the result.
C18_RightToLeft ==
    ShrinkSucceeded =>
        \A i \in 1..Len(Unshrinked) :
            /\ Unshrinked[i] <= calculator.min_shrink_width
                   => FixedConfig.column_widths[i] = Unshrinked[i]
            /\ FixedConfig.column_widths[i] <= Unshrinked[i]
            /\ FixedConfig.column_widths[i] < Unshrinked[i]
                   => /\ FixedConfig.column_widths[i] >= calculator.min_shrink_width
                      /\ \A j \in (i + 1)..Len(Unshrinked) :
                             FixedConfig.column_widths[j]
                                 <= calculator.min_shrink_width

\* the right column was reduced by more than one and the left one, wider
\* than min_shrink_width, was left as it was
C18_Witness ==
    /\ ShrinkSucceeded
    /\ Len(Unshrinked) = 2
    /\ Unshrinked[1] > calculator.min_shrink_width
    /\ FixedConfig.column_widths[1] = Unshrinked[1]
    /\ FixedConfig.column_widths[2] < Unshrinked[2] - 1

\* the current call is one in fixed mode whose unshrinked columns do not fit
FixedUnfitting ==
    /\ Computed /\ ~FreeMode /\ items # <<>>
    /\ ~fits_in_line(UsedCalc, Unshrinked)

\* the used line width of the columns when each is as narrow as shrinking
\* can make it
LeastUsedWidth ==
    Sum([i \in 1..Len(Unshrinked) |->
            Minimum(Unshrinked[i], calculator.min_shrink_width)])
        + UsedCalc.spacing * (Len(Unshrinked) - 1)

\* C19: in fixed mode, a configuration that does not fit raises
\* LineTooSmallError when min_shrink_width is None; with a min_shrink_width
\* it raises the error if and only if the sum over the columns of
\* min(width, min_shrink_width) plus spacing * (columns - 1) exceeds
\* line_width; and with num_columns >= 2 the error leaves calculate_columns
\* whether or not allow_exceeding is set.
C19_TooSmallIff ==
    FixedUnfitting =>
        /\ FixedConfig.err \in {"none", "LineTooSmallError"}
        /\ calculator.min_shrink_width = None
               => FixedConfig.err = "LineTooSmallError"
        /\ calculator.min_shrink_width # None
               => (FixedConfig.err = "LineTooSmallError"
                       <=> LeastUsedWidth > calculator.line_width)
        /\ (calculator.num_columns >= 2 /\ FixedConfig.err = "LineTooSmallError")
               => (pc = "raised" /\ error = "LineTooSmallError")

\* a calculator that may exceed the line and may shrink its two columns was
\* given two items wider than min_shrink_width, and raised
C19_Witness ==
    /\ FixedUnfitting
    /\ calculator.allow_exceeding
    /\ calculator.min_shrink_width # None
    /\ calculator.num_columns = 2 /\ Len(Unshrinked) = 2
    /\ \A i \in 1..2 : Unshrinked[i] > calculator.min_shrink_width
    /\ pc = "raised" /\ error = "LineTooSmallError"

\* what calculate_max_columns returns for the current call's widths
MaxColumns == calculate_max_columns(UsedCalc, ItemWidths)

\* C20: calculate_max_columns returns 0 for no items, 1 for one item, 1 when
\* the widest item is at least line_width wide, and otherwise
\* min(N, 1 + floor((line_width - widest) / (spacing + smallest))); and no
\* configuration with more columns than this value fits line_width.  (A
\* call in which spacing + smallest is 0 is left to C29.)
C20_UpperBound ==
    (Computed /\ FreeMode /\ MaxColumns.err = "none") =>
        /\ NumItems <= 1 => MaxColumns.value = NumItems
        /\ (NumItems >= 2 /\ SeqMax(ItemWidths) >= calculator.line_width)
               => MaxColumns.value = 1
        /\ (NumItems >= 2 /\ SeqMax(ItemWidths) < calculator.line_width)
               => MaxColumns.value
                      = Minimum(NumItems,
                                1 + (calculator.line_width - SeqMax(ItemWidths))
                                        \div (UsedCalc.spacing + SeqMin(ItemWidths)))
        /\ items # <<>> =>
               \A cfg \in FittingCandidates :
                   Len(cfg.column_widths) <= MaxColumns.value

\* the column counts from the upper bound down to 1 whose configuration,
\* computed from scratch, fits the line
FittingCounts ==
    {c \in 1..MaxColumns.value :
        fits_in_line(UsedCalc,
                     get_unchecked_column_config(ItemWidths, c).column_widths)}

\* the search is one that skips: the configuration for the upper bound has
\* fewer columns than the upper bound and does not fit
Skips ==
    /\ Len(get_unchecked_column_config(ItemWidths,
                                       MaxColumns.value).column_widths)
           < MaxColumns.value
    /\ MaxColumns.value \notin FittingCounts

\* C21: when a candidate fits, the search that goes on from the number of
\* columns of the previous configuration returns the same column widths and
\* the same number of lines as the plain search that computes a
\* configuration from scratch for every number of columns from the upper
\* bound down to 1 and takes the first that fits.
C21_SameAsPlain ==
    (Computed /\ FreeMode /\ items # <<>> /\ MaxColumns.err = "none"
            /\ FittingCounts # {}) =>
        /\ find_fitting_config(UsedCalc, ItemWidths)
               = plain_search(UsedCalc, ItemWidths, MaxColumns.value)
        /\ props.err = "none"
        /\ props.column_widths
               = plain_search(UsedCalc, ItemWidths, MaxColumns.value).column_widths
        /\ props.num_lines
               = plain_search(UsedCalc, ItemWidths, MaxColumns.value).num_lines

\* a search that skipped a number of columns and found a configuration with
\* two columns or more afterwards
C21_Witness ==
    /\ Computed /\ FreeMode /\ items # <<>> /\ MaxColumns.err = "none"
    /\ Skips
    /\ props.err = "none"
    /\ Len(props.column_widths) >= 2

\* C22: for non-empty item_widths and every max_columns >= 1,
\* iter_column_configs ends after at most max_columns configurations, every
\* configuration it yields has fewer columns than the one before, and the
\* last one is the single column ([max(item_widths)], N).
C22_Decreasing ==
    LET decreasing(max_columns, cfgs) ==
            /\ Len(cfgs) \in 1..max_columns
            /\ \A n \in 2..Len(cfgs) :
                   Len(cfgs[n].column_widths) < Len(cfgs[n - 1].column_widths)
            /\ cfgs[Len(cfgs)] = ColumnConfig(<<SeqMax(ItemWidths)>>, NumItems)
    IN  (Computed /\ items # <<>>) =>
            \A max_columns \in 1..(NumItems + 1) :
                decreasing(max_columns,
                           iter_column_configs(ItemWidths, max_columns))

\* five items: started with five columns the generator yields the
\* configurations with five, three, two and one column
C22_Witness ==
    /\ Computed /\ NumItems = 5
    /\ [n \in 1..Len(iter_column_configs(ItemWidths, 5)) |->
            Len(iter_column_configs(ItemWidths, 5)[n].column_widths)]
           = <<5, 3, 2, 1>>

\* every item of the chunk is empty: iter_formatted_lines makes no sub-line
\* for it and yields the empty line
AllEmpty(chunk) == \A i \in 1..Len(chunk) : chunk[i] = <<>>

\* C23: the rows of a layout with c columns hold c or c - 1 items each, at
\* least one, and no row holds more than the row before it; a row that was
\* yielded is made of the cells of its items alone, in the first columns
\* with their widths and with its last cell unpadded; and the template that
\* is cached after it has as many specifiers as the row has items, which is
\* the number of items of every later row once the template was narrowed.
C23_ShortRows ==
    /\ (Computed /\ pc = "iter" /\ items # <<>>) =>
           /\ \A r \in 1..Len(line_chunks) :
                  /\ Len(line_chunks[r]) \in {Len(props.column_widths),
                                              Len(props.column_widths) - 1}
                  /\ Len(line_chunks[r]) >= 1
           /\ \A r \in 2..Len(line_chunks) :
                  Len(line_chunks[r]) <= Len(line_chunks[r - 1])
    /\ (pc = "iter" /\ lines # <<>> /\ ~AllEmpty(line_chunks[Len(lines)])) =>
           /\ formatter.wrapsep = <<LINESEP>> =>
                  CellsFillColumns(line_chunks[Len(lines)],
                                   TextLines(lines[Len(lines)]))
           /\ template.widths
                  = Slice(props.column_widths, 0, Len(line_chunks[Len(lines)]))
           /\ Len(template.widths) < Len(props.column_widths) =>
                  \A r \in (Len(lines) + 1)..Len(line_chunks) :
                      Len(line_chunks[r]) = Len(template.widths)

\* three items in two columns: the second row has one item, shorter than
\* the first column, and was yielded with the template narrowed for it
C23_Witness ==
    /\ pc = "iter" /\ Len(lines) = 2
    /\ Len(props.column_widths) = 2
    /\ Len(line_chunks[2]) = 1
    /\ Len(template.widths) = 1
    /\ line_chunks[2][1] # <<>>
    /\ Len(line_chunks[2][1]) < props.column_widths[1]
    /\ lines[2] = line_chunks[2][1]

\* ceil(x / d)
CeilDiv(x, d) == (x + d - 1) \div d

\* iter_formatted_lines has just yielded the row of a chunk with an item
\* wider than its column, its sub-lines joined by the line separator
YieldedWrapped ==
    /\ pc = "iter" /\ lines # <<>>
    /\ formatter.wrapsep = <<LINESEP>>
    /\ \E i \in 1..Len(line_chunks[Len(lines)]) :
           Len(line_chunks[Len(lines)][i]) > props.column_widths[i]

\* the cell's slices over n sub-lines, one after the other
CellSlices(chunk, i, n) == Concat([k \in 1..n |-> CellText(chunk, i, k - 1)])

\* C24: the row of a chunk with an item wider than its column is yielded as
\* max over its cells of ceil(item width / column width) sub-lines; sub-line
\* k holds the characters [k * width, (k + 1) * width) of every cell, padded
\* with blanks in every column but the last; and the slices of a cell over
\* the sub-lines, one after the other, are the whole item.
C24_Wrapped ==
    LET wrapped(chunk, sub_lines) ==
            /\ \A i \in 1..Len(chunk) :
                   CeilDiv(Len(chunk[i]), props.column_widths[i]) <= Len(sub_lines)
            /\ \E i \in 1..Len(chunk) :
                   CeilDiv(Len(chunk[i]), props.column_widths[i]) = Len(sub_lines)
            /\ CellsFillColumns(chunk, sub_lines)
            /\ \A i \in 1..Len(chunk) :
                   CellSlices(chunk, i, Len(sub_lines)) = chunk[i]
    IN  YieldedWrapped =>
            wrapped(line_chunks[Len(lines)], TextLines(lines[Len(lines)]))

\* two items in two columns shrinked to less than half of the first item:
\* the row has three sub-lines or more, the last of them without the
\* second item
C24_Witness ==
    /\ YieldedWrapped
    /\ Len(line_chunks[Len(lines)]) = 2
    /\ Len(TextLines(lines[Len(lines)])) >= 3
    /\ Len(line_chunks[Len(lines)][2]) <= props.column_widths[2]
    /\ line_chunks[Len(lines)][2] # <<>>

\* what follows row n of the current call: nothing when the formatter does
\* not wrap lines and the row is exactly line_width wide, the line separator
\* otherwise
RowEnd(n) ==
    IF formatter.wrapsep = <<>> /\ Len(lines[n]) = calculator.line_width
    THEN <<>> ELSE <<LINESEP>>

\* C25: add_line_breaks appends the line separator to every row when the
\* formatter wraps lines; when it does not, a row that is exactly line_width
\* wide gets nothing appended and every other row gets the line separator;
\* format returns the rows with these endings, the line separators at the
\* end stripped.
C25_LineBreaks ==
    /\ (pc = "iter" /\ lines # <<>>) =>
           add_line_breaks(formatter, calculator, lines[Len(lines)])
               = lines[Len(lines)] \o RowEnd(Len(lines))
    /\ pc = "returned" =>
           result = RStrip(Concat([n \in 1..Len(lines) |-> lines[n] \o RowEnd(n)]),
                           LINESEP)

\* a formatter that does not wrap lines returned two rows, the first exactly
\* line_width wide and followed by the second without a line separator
C25_Witness ==
    /\ pc = "returned"
    /\ formatter.wrapsep = <<>>
    /\ Len(lines) = 2
    /\ Len(lines[1]) = calculator.line_width
    /\ lines[2] # <<>>
    /\ result = lines[1] \o lines[2]

\* no item of the current call is wider than its column
NoWrapping ==
    \A r \in 1..Len(line_chunks) : \A i \in 1..Len(line_chunks[r]) :
        Len(line_chunks[r][i]) <= props.column_widths[i]

\* C26: format of one or more items that need no wrapping returns num_lines
\* text lines joined by the line separator, one per row, rows of empty items
\* included (stated for a formatter that wraps lines, where every row is
\* followed by the line separator).
C26_LinePerRow ==
    (pc = "returned" /\ items # <<>> /\ formatter.wrapsep = <<LINESEP>> /\ NoWrapping) =>
        /\ Len(TextLines(result)) = props.num_lines
        /\ \A r \in 1..props.num_lines : TextLines(result)[r] = lines[r]

\* blanks, the extra separator and blanks again, for spacing s
ExtraSeparator(s) ==
    Repeat(Blank, s \div 2) \o <<formatter.extra_sep>> \o Repeat(Blank, s \div 2)

\* iter_formatted_lines of a formatter with an extra separator has just
\* yielded a line with two or more cells, one of them not empty (a row of
\* empty items alone is the empty line)
YieldedSeparated ==
    /\ pc = "iter" /\ lines # <<>>
    /\ formatter.extra_sep # None
    /\ formatter.wrapsep = <<LINESEP>>
    /\ Len(line_chunks[Len(lines)]) >= 2
    /\ ~AllEmpty(line_chunks[Len(lines)])

C28_NoStateCarried == [][calculator'.spacing = calculator.spacing]_vars

\* C29: no call fails with a division by zero, neither in the calculation
\* (calculate_max_columns) nor while its lines are formatted (the number of
\* wraps of a row): a call returns or raises LineTooSmallError.
C29_NoDivisionByZero ==
    /\ pc = "raised" => error = "LineTooSmallError"
    /\ error # "ZeroDivisionError"

\* the LC_COLLATE setting before any thread entered its call: what the first
\* call found
InitialLocale == threads[CHOOSE t \in Threads : threads[t].entered = 1].found

\* the get_sorted call of thread t is over and no other get_sorted call has
\* been entered
SortedAlone(t) ==
    /\ threads[t].name = "get_sorted" /\ threads[t].pc = "done"
    /\ \A u \in Threads \ {t} : threads[u].name # "get_sorted"

\* what columnize(strings, spacing, line_width) returns or raises when no
\* other call runs
ColumnizedAlone(strings, spacing, line_width) ==
    LET fmt == [extra_sep |-> None, wrapsep |-> init_wrapsep(TRUE)]
        calc == [spacing |-> spacing, line_width |-> line_width, num_columns |-> None,
                 allow_exceeding |-> FALSE, min_shrink_width |-> None]
        joined(made) ==
            [error |-> made.err,
             result |-> IF made.err = "none" THEN format(fmt, calc, made.lines) ELSE <<>>]
        formatted(got) ==
            IF got.props.err # "none" THEN [error |-> got.props.err, result |-> <<>>]
            ELSE joined(iter_formatted_lines(fmt, got.props,
                                             make_line_template(fmt, got.props, None),
                                             make_line_chunks(strings, got.props)))
    IN  formatted(get_line_properties(fmt, calc, strings))

\* C30: a get_sorted call that runs alone leaves the LC_COLLATE setting as
\* it found it, whether it returns or raises locale.Error, and sorts under
\* the setting it asked for (or by code points when the setting was refused);
\* a columnize call without sorting returns or raises what it does when run
\* alone, whatever the other thread does meanwhile, and never changes the
\* setting.  That two get_sorted calls can leave another setting behind is
\* the reachable state C30_Witness.
C30_SortingAlone ==
    /\ \A t \in Threads : SortedAlone(t) =>
           /\ locale = threads[t].found
           /\ locale = InitialLocale
           /\ threads[t].error \in {"none", "locale.Error"}
           /\ threads[t].error = "locale.Error" => threads[t].strict
           /\ threads[t].locale_name_was_set =>
                  /\ threads[t].sorted_under
                         = setlocale(threads[t].found, threads[t].locale_name).setting
                  /\ threads[t].result
                         = sorted(threads[t].items, threads[t].sorted_under)
           /\ (~threads[t].locale_name_was_set /\ threads[t].error = "none") =>
                  threads[t].result = sorted(threads[t].items, "C")
    /\ \A t \in Threads :
           (threads[t].name = "columnize" /\ threads[t].pc = "done") =>
               [error |-> threads[t].error, result |-> threads[t].result]
                   = ColumnizedAlone(threads[t].items, threads[t].calculator.spacing,
                                     threads[t].calculator.line_width)
    /\ (\A t \in Threads : threads[t].name # "get_sorted") =>
           \A t \in Threads : threads[t].pc # "start" => locale = threads[t].found

\* two get_sorted calls have returned, one of them has sorted under the
\* setting the other one asked for and returns another order than under its
\* own, and the setting they leave is not the one before the calls
C30_Witness ==
    /\ \A t \in Threads :
           /\ threads[t].name = "get_sorted" /\ threads[t].pc = "done"
           /\ threads[t].error = "none"
    /\ locale # InitialLocale
    /\ \E t \in Threads :
           /\ threads[t].locale_name_was_set
           /\ threads[t].sorted_under
                  # setlocale(threads[t].found, threads[t].locale_name).setting
           /\ threads[t].result
                  # sorted(threads[t].items,
                           setlocale(threads[t].found, threads[t].locale_name).setting)

====
